---- MODULE Spec2Model ----
(***************************************************************************)
(* Session and token lifecycle of the GitHub Copilot integration:          *)
(*   - GitHubCopilotConversationEntity (conversation.py): the adapter's    *)
(*     per-conversation session map, idle sweep and entity removal;        *)
(*   - GitHubCopilotApiClient (api.py): the SDK client wrapper with its    *)
(*     session map, its two asyncio locks and the lazily started client;   *)
(*   - GitHubCopilotAuth (auth.py): Copilot token cache and device flow.   *)
(* Every coroutine is a task whose pc is the await it is suspended at; an  *)
(* action runs a task from one await to the next.                          *)
(***************************************************************************)
EXTENDS Integers, Sequences, FiniteSets, TLC

\* ------------------------------------------------------------------ bounds
MaxSessions == 2       \* remote sessions the SDK hands out in one run
MaxClients == 2        \* CopilotClient objects constructed in one run
MaxTicks == 1          \* clock advances in one run
MaxOps == 2            \* operations called in one run

\* conversation.py:60  self._session_timeout = 3600
SessionTimeout == 3600

\* The clock advances by the timeout exactly, or by a second more.
TickSteps == {SessionTimeout, SessionTimeout + 1}

\* Conversation ids are caller-supplied text (conversation.py:194); session
\* ids are made by the SDK (api.py:164).  Nothing keeps the two apart, so
\* one conversation id below is spelled like a session id.
ConvIds == {"c1", "c2", "s1"}
SessionNames == <<"s1", "s2", "s3", "s4", "s5">>
SessionIds == {SessionNames[i] : i \in 1..Len(SessionNames)}

Tasks == {1, 2}
Free == 0
None == "none"
Prompts == {"text", "blank"}   \* a blank prompt is empty after strip()

VARIABLES
    sessions,           \* conversation.py:57  conversation id -> session id of its context
    session_last_used,  \* conversation.py:58  conversation id -> time of last use
    removed,            \* the entity has been removed from hass
    runtime_ok,         \* entry.runtime_data.client is accessible
    client_sessions,    \* api.py:95  keys of GitHubCopilotApiClient._sessions
    client,             \* api.py:94  _client: 0 for None, else the client's number
    session_lock,       \* api.py:96  holder of _session_lock, or Free
    client_lock,        \* api.py:97  holder of _client_lock, or Free
    cli,                \* SDK side: state of every CopilotClient constructed
    nsess,              \* SDK side: sessions created so far
    created_for,        \* SDK side: session id -> conversation id it was created for
    destroy_invoked,    \* SDK side: sessions whose destroy() was called
    destroyed,          \* SDK side: sessions whose destroy() returned
    authed,             \* SDK side: clients that have reported isAuthenticated
    dropped,            \* sessions the adapter dropped after a failed send
    now,                \* time.time()
    nops,               \* operations called so far (auth.py: events so far)
    nticks,             \* clock advances so far
    task,               \* task -> its coroutine frame
    github_token,       \* auth.py:101  access token of _github_token, or None
    copilot_token,      \* auth.py:102  _copilot_token: empty, or the one cached token
    issued,             \* exchange endpoint: Copilot tokens issued so far
    nreq,               \* exchange endpoint: requests received so far
    acall,              \* call -> frame of a get_copilot_token call
    poll,               \* frame of the poll_for_token call
    cli_env,            \* what _check_cli_installed finds around it
    cli_status,         \* the CliInstallationStatus of the last check
    flow,               \* config_flow.py:39-43  the GitHubCopilotFlowHandler
    entry,              \* the config entry: version, data and options
    settings,           \* what the last call on the entry did and returned
    hass_data,          \* copilot_assistant: hass.data and its DOMAIN bucket
    unit                \* copilot_assistant: entry id -> frame of its setup/unload

vars == <<sessions, session_last_used, removed, runtime_ok, client_sessions,
          client, session_lock, client_lock, cli, nsess, created_for,
          destroy_invoked, destroyed, authed, dropped, now, nops, nticks, task,
          github_token, copilot_token, issued, nreq, acall, poll,
          cli_env, cli_status, flow, entry, settings, hass_data, unit>>

adapterVars == <<sessions, session_last_used, removed, runtime_ok>>
sdkVars == <<cli, nsess, created_for, destroy_invoked, destroyed, authed>>
authVars == <<github_token, copilot_token, issued, nreq, acall, poll>>
cliVars == <<cli_env, cli_status>>
haVars == <<flow, entry, settings, hass_data, unit>>

\* ----------------------------------------------------------------- helpers
\* dict[k] = v
Put(f, k, v) == [x \in (DOMAIN f) \cup {k} |-> IF x = k THEN v ELSE f[x]]
\* dict.pop(k, None)
Pop(f, k) == [x \in (DOMAIN f) \ {k} |-> f[x]]
Empty == [x \in {} |-> None]

IdleFrame == [pc |-> "idle", op |-> None, conv |-> None, sid |-> None,
              todo |-> {}, cur |-> None, cl |-> 0, res |-> None, prompt |-> None,
              stale |-> {}, w |-> FALSE, out |-> None]

\* The frame of a task whose operation has ended with result r.  What an
\* operation returned can be seen in the state it returns in; the frame is
\* blank again once anything else has happened.  out, set by the step that
\* ends the operation, is what made it end so.
Ended(t, r) == [IdleFrame EXCEPT !.op = task[t].op, !.res = r,
                                 !.conv = task[t].conv, !.sid = task[t].sid,
                                 !.cl = task[t].cl, !.prompt = task[t].prompt]
Quiet(f) == IF f.pc = "idle" THEN IdleFrame ELSE f

\* Task t goes on with frame f.
Upd(t, f) == [u \in Tasks |-> IF u = t THEN f ELSE Quiet(task[u])]

\* A get_copilot_token call that is not running.  arg is the github_token
\* argument, cred the credential the call resolved, held the cache as the
\* call found it, at the time of the call, sent the requests the call has
\* made, status the answer to its request, tok the token it returned.
IdleCall == [pc |-> "idle", arg |-> None, cred |-> None, held |-> {}, at |-> 0,
             sent |-> 0, status |-> None, res |-> None, tok |-> {}]

\* A poll_for_token call that is not running.  interval is current_interval,
\* start is start_time, sent the requests made, last the last answer, hist
\* the first MaxHist answers, desc the error_description of the last answer, msg
\* the text of the error the call raised.
IdlePoll == [pc |-> "idle", interval |-> 0, start |-> 0, expires_in |-> 0,
             sent |-> 0, last |-> None, res |-> None, cred |-> None,
             hist |-> <<>>, desc |-> None, msg |-> None]

\* auth.py:101-102  a new authenticator holds no token
AuthInit ==
    /\ github_token = None
    /\ copilot_token = {}
    /\ issued = 0
    /\ nreq = 0
    /\ acall = [t \in Tasks |-> IdleCall]
    /\ poll = IdlePoll

BaseInit ==
    /\ AuthInit
    /\ sessions = Empty
    /\ session_last_used = Empty
    /\ removed = FALSE
    /\ runtime_ok \in BOOLEAN
    /\ client_sessions = {}
    /\ client = 0
    /\ session_lock = Free
    /\ client_lock = Free
    /\ cli = <<>>
    /\ nsess = 0
    /\ created_for = Empty
    /\ destroy_invoked = {}
    /\ destroyed = {}
    /\ authed = {}
    /\ dropped = {}
    /\ now = 0
    /\ nops = 0
    /\ nticks = 0
    /\ task = [t \in Tasks |-> IdleFrame]

\* api.py:284-288, 306, 371-377  what a check of the CLI depends on: option
\* is client_options["cli_path"], environ is COPILOT_CLI_PATH (None: not
\* set, " ": blank), onpath the bare names shutil.which finds, file the state
\* of the file at the absolute path, common the well-known locations that
\* hold an executable.
CliNames == {"copilot", "mycli"}
AbsPath == "/opt/copilot"
CliValues == {None, " ", AbsPath} \cup CliNames
FileStates == {"missing", "not_executable", "executable"}
CommonPaths == <<"~/.local/bin/copilot", "/usr/local/bin/copilot", "/usr/bin/copilot">>
CliEnvs == [option : CliValues, environ : CliValues, onpath : SUBSET CliNames,
            file : FileStates, common : SUBSET (1..Len(CommonPaths))]

\* No option, no variable, `copilot` on PATH.
DefaultEnv == [option |-> None, environ |-> None, onpath |-> {"copilot"},
               file |-> "missing", common |-> {}]

\* No check has been made.
NoStatus == [checked |-> FALSE, cli_installed |-> FALSE, cli_path |-> None,
             error_details |-> ""]

\* const.py:12-19  the setting keys and their defaults.  A temperature is
\* counted in tenths, the step of its slider (config_flow.py:191-193).
CONF_MODEL == "model"
CONF_MAX_TOKENS == "max_tokens"
CONF_TEMPERATURE == "temperature"
CONF_API_TOKEN == "api_token"
CONF_GITHUB_TOKEN == "github_token"
DEFAULT_MODEL == "gpt-4o"
DEFAULT_MAX_TOKENS == 1000
DEFAULT_TEMPERATURE == 7

SettingKeys == {CONF_MODEL, CONF_MAX_TOKENS, CONF_TEMPERATURE}

\* config_flow.py:164-198  what the configure form lets through: a model of
\* the list, max_tokens from 100 to 4000, temperature from 0 to 2
Models == {DEFAULT_MODEL, "o1"}
MaxTokensValues == {100, 4000}
Temperatures == {0, 20}

\* dict.get(k, default)
Get(d, k, default) == IF k \in DOMAIN d THEN d[k] ELSE default

\* The dict d cut down to the keys in K.
Restrict(d, K) == [k \in (DOMAIN d) \cap K |-> d[k]]

\* The dicts that give some of the setting keys a permitted value.
SettingDicts ==
    {Restrict([model |-> m, max_tokens |-> n, temperature |-> c], S) :
        m \in Models, n \in MaxTokensValues, c \in Temperatures,
        S \in SUBSET SettingKeys}

\* config_flow.py:39-43  a flow handler just constructed.  step is the form
\* the flow shows (or create_entry, abort), auth and device tell whether
\* _auth and _device_code_response are set, github_token is the access
\* token of _github_token, created the entry the flow created; called and
\* input are the step called last and whether it was given user input,
\* polled the token poll_for_token returned to this flow, validated the
\* tokens get_copilot_token succeeded with, direct whether a step was
\* called that is not the step of the form shown.
NoFlow == [step |-> None, auth |-> FALSE, device |-> FALSE, github_token |-> None,
           errors |-> None, created |-> {}, called |-> None, input |-> FALSE,
           polled |-> None, validated |-> {}, direct |-> FALSE]

\* A config entry; the one at rest is what the wizard's defaults give.
NoEntry == [version |-> 2, data |-> [k \in {CONF_GITHUB_TOKEN} |-> "A"],
            options |-> Empty]

\* No call on the entry yet.  op is the function called last, ret what it
\* returned, before the entry as the call found it; model, max_tokens and
\* temperature are what async_setup_entry gave the client.
NoSettings == [op |-> None, ret |-> None, before |-> NoEntry, model |-> None,
               max_tokens |-> 0, temperature |-> 0]

\* copilot_assistant: hass.data without the DOMAIN key, and no call on any
\* entry.  has_token tells whether entry.data holds access_token, cstate the
\* state of the CopilotClient the last call on the entry made or took out of
\* the bucket (None: it found none).
EntryIds == {"e1", "e2"}
NoBucket == [exists |-> FALSE, ids |-> {}]
IdleUnit == [pc |-> "idle", op |-> None, ret |-> None, has_token |-> TRUE,
             cstate |-> None]

HaInit ==
    /\ flow = NoFlow
    /\ entry = NoEntry
    /\ settings = NoSettings
    /\ hass_data = NoBucket
    /\ unit = [e \in EntryIds |-> IdleUnit]

Init ==
    /\ BaseInit
    /\ HaInit
    /\ cli_env = DefaultEnv
    /\ cli_status = NoStatus

\* ------------------------------------------------------- asyncio scheduling
\* `async with lock` suspends the task only if the lock is taken or other
\* tasks already wait for it (asyncio.Lock.acquire); otherwise the task
\* runs on to its next await.  A frame at a lock with w = FALSE is such a
\* task: it is the one that runs now.
SessLockPcs == {"create_lock", "send", "end_lock", "close_lock"}
ClientLockPcs == {"client_lock", "close_clock"}

\* Every frame at one of these points asks for the session lock.
AtSessLockAlways(f) == f.pc \in SessLockPcs

\* api.py:193-196 raises for a blank prompt before the lock is asked for
AtSessLock(f) == f.pc \in SessLockPcs /\ ~(f.pc = "send" /\ f.prompt = "blank")
AtClientLock(f) == f.pc \in ClientLockPcs

\* Frame f of task t as it reaches its next await, sl and cl being the
\* holders of the two locks at that moment.
Arrive(t, f, sl, cl) ==
    [f EXCEPT !.w =
        \/ /\ AtSessLock(f)
           /\ \/ sl # Free
              \/ \E u \in Tasks \ {t} : AtSessLock(task[u]) /\ task[u].w
        \/ /\ AtClientLock(f)
           /\ \/ cl # Free
              \/ \E u \in Tasks \ {t} : AtClientLock(task[u]) /\ task[u].w]

Running(u) == task[u].pc \in (SessLockPcs \cup ClientLockPcs) /\ ~task[u].w

\* Task t is the one the event loop runs next.
Sched(t) == Running(t) \/ \A u \in Tasks : ~Running(u)

\* Task t is called with one more operation.  Tasks have no identity of
\* their own: the second one is used when the first is busy.
Called(t) ==
    /\ \A u \in Tasks : u < t => task[u].pc # "idle"
    /\ nops < MaxOps
    /\ nops' = nops + 1

\* ------------------------------------------------ conversation.py: adapter
\* conversation.py:92-96  ids whose last use is more than the timeout ago
Expired(lu, t) == {k \in DOMAIN lu : t - lu[k] > SessionTimeout}

\* conversation.py:149-160  reuse the conversation's context or go and create one
Resolve(f, sess) ==
    IF f.conv \in DOMAIN sess
    THEN [f EXCEPT !.pc = "send", !.sid = sess[f.conv], !.todo = {}, !.cur = None]
    ELSE [f EXCEPT !.pc = "create_lock", !.todo = {}, !.cur = None]

\* A refresh that does not look whether the conversation has a session.
TouchAlways(lu, sess, c, t) == Put(lu, c, t)

\* conversation.py:151  the reused conversation's timestamp is refreshed
Touch(lu, sess, c, t) == IF c \in DOMAIN sess THEN Put(lu, c, t) ELSE lu

\* conversation.py:110  the key the sweep hands to async_end_session
SweepKey(k) == k

\* conversation.py:111-112  the sweep drops an ended id from a map
SweepDrop(m, k) == Pop(m, k)

\* A failure handler that leaves the entry in the map.
DropFailedKeep(m, c) == m

\* conversation.py:244-245, 254-255, 264-265  a failed turn drops its entry
DropFailed(m, c) == Pop(m, c)

\* conversation.py:189-218, 89-106  async_process up to its first await
StartTurn(t, c, p) ==
    /\ Sched(t)
    /\ Called(t)
    /\ task[t].pc = "idle"
    /\ ~removed
    /\ LET f0 == [IdleFrame EXCEPT !.op = "turn", !.conv = c, !.prompt = p,
                                   !.stale = dropped]
           exp == Expired(session_last_used, now)
       IN  IF ~runtime_ok
           THEN /\ task' = Upd(t, [IdleFrame EXCEPT !.op = "turn", !.res = "not_initialized", !.conv = c])
                /\ UNCHANGED session_last_used
           ELSE IF exp = {}
           THEN /\ task' = Upd(t, Arrive(t, Resolve(f0, sessions), session_lock, client_lock))
                /\ session_last_used' = Touch(session_last_used, sessions, c, now)
           ELSE /\ task' = Upd(t, Arrive(t, [f0 EXCEPT !.pc = "end_lock", !.todo = exp],
                               session_lock, client_lock))
                /\ UNCHANGED session_last_used
    /\ UNCHANGED <<sessions, removed, runtime_ok, sdkVars, client_sessions, client,
                   session_lock, client_lock, dropped, now, nticks, authVars, cliVars, haVars>>

\* A sweep that lets what async_end_session raised leave the turn.
SweepNextUncaught(t, k, out) ==
    LET f == task[t]
        rest == f.todo \ {k}
        sess == IF out = "ok" THEN SweepDrop(sessions, k) ELSE sessions
        lu == IF out = "ok" THEN SweepDrop(session_last_used, k) ELSE session_last_used
    IN  /\ sessions' = sess
        /\ IF out # "ok"
           THEN /\ task' = Upd(t, Ended(t, "generic_err"))
                /\ session_last_used' = lu
           ELSE IF rest = {}
           THEN /\ task' = Upd(t, Arrive(t, Resolve(f, sess), session_lock, client_lock))
                /\ session_last_used' = Touch(lu, sess, f.conv, now)
           ELSE /\ task' = Upd(t, Arrive(t, [f EXCEPT !.pc = "end_lock", !.todo = rest,
                                                      !.cur = None],
                                         session_lock, client_lock))
                /\ session_last_used' = lu

\* conversation.py:108-119, then 149-160  the sweep of a turn once
\* async_end_session for id k is over: an id that was ended is dropped, one
\* whose call raised is logged and kept, and after the last id the turn
\* resolves its session
SweepNext(t, k, out) ==
    LET f == task[t]
        rest == f.todo \ {k}
        sess == IF out = "ok" THEN SweepDrop(sessions, k) ELSE sessions
        lu == IF out = "ok" THEN SweepDrop(session_last_used, k) ELSE session_last_used
    IN  /\ sessions' = sess
        /\ IF rest = {}
           THEN /\ task' = Upd(t, Arrive(t, Resolve(f, sess), session_lock, client_lock))
                /\ session_last_used' = Touch(lu, sess, f.conv, now)
           ELSE /\ task' = Upd(t, Arrive(t, [f EXCEPT !.pc = "end_lock", !.todo = rest,
                                                      !.cur = None],
                                         session_lock, client_lock))
                /\ session_last_used' = lu

\* What the caller of async_end_session does once the call for key k is over
\* (out = "ok": it returned, "raise": it raised GitHubCopilotApiClientError).
\*   turn:   conversation.py:108-119, then 149-160
\*   remove: conversation.py:76-87
\*   test:   api.py:116-117; what the finally clause raises replaces what
\*           the probe raised
\*   close:  api.py:261-264
AfterEnd(t, k, out) ==
    LET f == task[t]
        rest == f.todo \ {k}
        again == Arrive(t, [f EXCEPT !.pc = "end_lock", !.todo = rest, !.cur = None],
                        session_lock, client_lock)
    IN  CASE f.op = "turn" ->
              /\ SweepNext(t, k, out)
              /\ UNCHANGED removed
          [] f.op = "test" ->
              /\ task' = Upd(t, [Ended(t, IF out = "ok" THEN f.res ELSE "generic_err")
                                    EXCEPT !.out = f.out])
              /\ UNCHANGED <<sessions, session_last_used, removed>>
          [] f.op = "remove" ->
              IF rest = {}
              THEN /\ sessions' = Empty
                   /\ session_last_used' = Empty
                   /\ removed' = TRUE
                   /\ task' = Upd(t, Ended(t, "ok"))
              ELSE /\ task' = Upd(t, again)
                   /\ UNCHANGED <<sessions, session_last_used, removed>>
          [] OTHER ->
              /\ task' = Upd(t, IF rest = {}
                     THEN Arrive(t, [f EXCEPT !.pc = "close_clock", !.todo = {},
                                                !.cur = None],
                                 session_lock, client_lock)
                     ELSE again)
              /\ UNCHANGED <<sessions, session_last_used, removed>>

\* ------------------------------------------------------ api.py: end_session
\* A pop that leaves the session in the map.
PopSessionKeep(m, key) == m

\* api.py:178  self._sessions.pop(session_id, None)
PopSession(m, key) == m \ {key}

\* api.py:177-180  under the session lock: pop the key; nothing found, return
EndLock(t) ==
    /\ task[t].pc = "end_lock"
    /\ Sched(t)
    /\ session_lock = Free
    /\ \E k \in task[t].todo :
         LET key == IF task[t].op = "close" THEN k ELSE SweepKey(k)
         IN  IF key \in client_sessions
             THEN /\ client_sessions' = PopSession(client_sessions, key)
                  /\ task' = Upd(t, [task[t] EXCEPT !.pc = "end_destroy", !.cur = k, !.w = FALSE])
                  /\ UNCHANGED <<sessions, session_last_used, removed>>
             ELSE /\ AfterEnd(t, k, "ok")
                  /\ UNCHANGED client_sessions
    /\ UNCHANGED <<runtime_ok, sdkVars, client, session_lock, client_lock, dropped, now, nops, nticks, authVars, cliVars, haVars>>

\* api.py:181-189  await destroy(); any exception becomes the generic error
EndDestroy(t) ==
    /\ task[t].pc = "end_destroy"
    /\ Sched(t)
    /\ \E out \in {"ok", "raise"} :
         LET k == task[t].cur
             key == IF task[t].op = "close" THEN k ELSE SweepKey(k)
         IN  /\ destroy_invoked' = destroy_invoked \cup {key}
             /\ destroyed' = IF out = "ok" THEN destroyed \cup {key} ELSE destroyed
             /\ AfterEnd(t, k, out)
    /\ UNCHANGED <<runtime_ok, cli, nsess, created_for, authed, client_sessions, client,
                   session_lock, client_lock, dropped, now, nops, nticks, authVars, cliVars, haVars>>

\* ---------------------------------------------------- api.py: _ensure_client
StartOutcomes == {"ok", "FileNotFoundError", "PermissionError",
                  "ConnectionRefusedError", "Exception"}
AuthOutcomes == {"authenticated", "unauthenticated", "raise"}

\* A check that never finds the held client.
ClientHeldNever(c) == FALSE

\* api.py:401  if self._client
ClientHeld(c) == c # 0

\* The frame of a task to which _ensure_client has returned client k:
\* api.py:124 (create_session) or api.py:500 (list_models) comes next.
AfterEnsure(f, k) ==
    [f EXCEPT !.pc = IF f.op = "models" THEN "listing" ELSE "creating", !.cl = k,
              !.w = FALSE]

\* A failing _ensure_client that leaves the session lock taken.
EnsureFailKeepLock(t, r) ==
    /\ task' = Upd(t, [Ended(t, r) EXCEPT !.out = "ensure_client"])
    /\ session_lock' = session_lock

\* _ensure_client raised r: async_create_session leaves its `async with`
\* (api.py:121) and _ensure_session turns a client error into an error
\* result (conversation.py:161-187); anything else leaves async_process.
EnsureFail(t, r) ==
    /\ task' = Upd(t, [Ended(t, r) EXCEPT !.out = "ensure_client"])
    /\ session_lock' = IF task[t].op = "models" THEN session_lock ELSE Free

\* api.py:400-418  under the client lock: return the held client, or check
\* the CLI and construct a new client
ClientLock(t) ==
    /\ task[t].pc = "client_lock"
    /\ Sched(t)
    /\ client_lock = Free
    /\ IF ClientHeld(client)
       THEN /\ task' = Upd(t, AfterEnsure(task[t], client))
            /\ UNCHANGED <<cli, client_lock, session_lock>>
       ELSE \E installed \in BOOLEAN :
              IF installed
              THEN /\ Len(cli) < MaxClients
                   /\ cli' = Append(cli, "new")
                   /\ client_lock' = t
                   /\ task' = Upd(t, [task[t] EXCEPT !.pc = "starting", !.cl = Len(cli) + 1,
                                        !.w = FALSE])
                   /\ UNCHANGED session_lock
              ELSE /\ EnsureFail(t, "comm_err")
                   /\ UNCHANGED <<cli, client_lock>>
    /\ UNCHANGED <<adapterVars, nsess, created_for, destroy_invoked, destroyed, authed,
                   client_sessions, client, dropped, now, nops, nticks, authVars, cliVars, haVars>>

\* api.py:419-462  await client.start(); every failure is a communication error
Starting(t) ==
    /\ task[t].pc = "starting"
    /\ Sched(t)
    /\ \E o \in StartOutcomes :
         IF o = "ok"
         THEN /\ cli' = [cli EXCEPT ![task[t].cl] = "started"]
              /\ task' = Upd(t, [task[t] EXCEPT !.pc = "authing"])
              /\ UNCHANGED <<client_lock, session_lock>>
         ELSE /\ client_lock' = Free
              /\ EnsureFail(t, "comm_err")
              /\ UNCHANGED cli
    /\ UNCHANGED <<adapterVars, nsess, created_for, destroy_invoked, destroyed, authed,
                   client_sessions, client, dropped, now, nops, nticks, authVars, cliVars, haVars>>

\* A status query that did not raise counts as authenticated.
AuthenticatedAny(o) == o # "raise"

\* api.py:464-479  the status query returned and reports isAuthenticated
Authenticated(o) == o = "authenticated"

\* api.py:464-494  await client.get_auth_status(); keep the client only if
\* it reports isAuthenticated
Authing(t) ==
    /\ task[t].pc = "authing"
    /\ Sched(t)
    /\ \E o \in AuthOutcomes :
         /\ authed' = IF o = "authenticated" THEN authed \cup {task[t].cl} ELSE authed
         /\ IF Authenticated(o)
            THEN /\ client' = task[t].cl
                 /\ client_lock' = Free
                 /\ task' = Upd(t, AfterEnsure(task[t], task[t].cl))
            ELSE /\ task' = Upd(t, [task[t] EXCEPT !.pc = "stopping"])
                 /\ UNCHANGED <<client, client_lock>>
    /\ UNCHANGED <<adapterVars, cli, nsess, created_for, destroy_invoked, destroyed,
                   client_sessions, session_lock, dropped, now, nops, nticks, authVars, cliVars, haVars>>

\* api.py:467, 480  await client.stop(), then the authentication error; an
\* exception of stop() itself leaves _ensure_client unwrapped
Stopping(t) ==
    /\ task[t].pc = "stopping"
    /\ Sched(t)
    /\ \E o \in {"ok", "raise"} :
         /\ cli' = [cli EXCEPT ![task[t].cl] = "stopped"]
         /\ client_lock' = Free
         /\ EnsureFail(t, IF o = "ok" THEN "auth_err" ELSE "raised")
    /\ UNCHANGED <<adapterVars, nsess, created_for, destroy_invoked, destroyed, authed,
                   client_sessions, client, dropped, now, nops, nticks, authVars, cliVars, haVars>>

\* ----------------------------------------------- api.py: async_create_session
CreateOutcomes == {"ok", "TimeoutError", "ValueError", "Exception"}

\* api.py:130-162
CreateError(o) == IF o = "TimeoutError" THEN "comm_err" ELSE "generic_err"

\* api.py:121  async with self._session_lock, then _ensure_client
CreateLock(t) ==
    /\ task[t].pc = "create_lock"
    /\ Sched(t)
    /\ session_lock = Free
    /\ session_lock' = t
    /\ task' = Upd(t, Arrive(t, [task[t] EXCEPT !.pc = "client_lock"], t, client_lock))
    /\ UNCHANGED <<adapterVars, sdkVars, client_sessions, client, client_lock,
                   dropped, now, nops, nticks, authVars, cliVars, haVars>>

\* api.py:124-173  await client.create_session(); then conversation.py:159-160
\* in a turn, api.py:113-114 in async_test_connection
Creating(t) ==
    /\ task[t].pc = "creating"
    /\ Sched(t)
    /\ session_lock' = Free
    /\ \E o \in CreateOutcomes :
         IF o = "ok"
         THEN /\ nsess < MaxSessions
              /\ LET s == SessionNames[nsess + 1]
                     c == task[t].conv
                 IN  /\ nsess' = nsess + 1
                     /\ created_for' = Put(created_for, s, c)
                     /\ client_sessions' = client_sessions \cup {s}
                     /\ IF task[t].op = "test"
                        THEN UNCHANGED <<sessions, session_last_used>>
                        ELSE /\ sessions' = Put(sessions, c, s)
                             /\ session_last_used' = Put(session_last_used, c, now)
                     /\ task' = Upd(t, Arrive(t, [task[t] EXCEPT !.pc = "send", !.sid = s, !.cl = 0],
                                   Free, client_lock))
         ELSE /\ task' = Upd(t, Ended(t, CreateError(o)))
              /\ UNCHANGED <<nsess, created_for, client_sessions, sessions,
                             session_last_used>>
    /\ UNCHANGED <<removed, runtime_ok, cli, destroy_invoked, destroyed, authed, client,
                   client_lock, dropped, now, nops, nticks, authVars, cliVars, haVars>>

\* ------------------------------------------------- api.py: async_send_prompt
SendOutcomes == {"content", "TimeoutError", "ConnectionError", "Exception",
                 "no_event", "empty_content"}

\* Every failure of a send is the generic error.
SendErrorAllGeneric(o) == "generic_err"

\* api.py:207-254
SendError(o) ==
    IF o \in {"TimeoutError", "ConnectionError"} THEN "comm_err" ELSE "generic_err"

\* A probe whose failure leaves async_test_connection at once.
AfterProbeNoFinally(f, r, o) ==
    IF r = "ok"
    THEN [f EXCEPT !.pc = "end_lock", !.todo = {f.sid}, !.res = r, !.out = o, !.w = FALSE]
    ELSE [IdleFrame EXCEPT !.op = f.op, !.sid = f.sid, !.res = r, !.out = o]

\* api.py:113-116  the probe of async_test_connection has returned or raised
\* (r, for cause o): the finally clause ends the session either way
AfterProbe(f, r, o) ==
    [f EXCEPT !.pc = "end_lock", !.todo = {f.sid}, !.res = r, !.out = o, !.w = FALSE]

\* api.py:114-116  async_test_connection goes on after its probe
ProbeDone(t, r, o) ==
    /\ task' = Upd(t, Arrive(t, AfterProbe(task[t], r, o), session_lock, client_lock))
    /\ UNCHANGED <<sessions, session_last_used, dropped>>

\* conversation.py:242-271  the turn's send raised client error r, for cause o
TurnFailed(t, r, o) ==
    /\ sessions' = DropFailed(sessions, task[t].conv)
    /\ session_last_used' = DropFailed(session_last_used, task[t].conv)
    /\ dropped' = dropped \cup {task[t].sid}
    /\ task' = Upd(t, [Ended(t, r) EXCEPT !.out = o])

\* A lookup that finds every session id.
KnownAlways(sid, m) == TRUE

\* api.py:199-200  self._sessions.get(session_id) finds a session
Known(sid, m) == sid \in m

\* api.py:193-203  blank prompt: generic error; else look the session up
\* under the session lock
SendPrompt(t) ==
    /\ task[t].pc = "send"
    /\ Sched(t)
    /\ IF task[t].prompt = "blank"
       THEN TurnFailed(t, "generic_err", "blank_prompt")
       ELSE /\ session_lock = Free
            /\ IF Known(task[t].sid, client_sessions)
               THEN /\ task' = Upd(t, [task[t] EXCEPT !.pc = "sending", !.w = FALSE])
                    /\ UNCHANGED <<sessions, session_last_used, dropped>>
               ELSE IF task[t].op = "test"
               THEN ProbeDone(t, "generic_err", "unknown_session")
               ELSE TurnFailed(t, "generic_err", "unknown_session")
    /\ UNCHANGED <<removed, runtime_ok, sdkVars, client_sessions, client,
                   session_lock, client_lock, now, nops, nticks, authVars, cliVars, haVars>>

\* api.py:205-255  await send_and_wait(); then conversation.py:236-271 in a
\* turn, api.py:115-116 in async_test_connection
SendReply(t) ==
    /\ task[t].pc = "sending"
    /\ Sched(t)
    /\ \E o \in SendOutcomes :
         IF task[t].op = "test"
         THEN ProbeDone(t, IF o = "content" THEN "ok" ELSE SendError(o), o)
         ELSE IF o = "content"
         THEN /\ task' = Upd(t, [Ended(t, "ok") EXCEPT !.out = o])
              /\ UNCHANGED <<sessions, session_last_used, dropped>>
         ELSE TurnFailed(t, SendError(o), o)
    /\ UNCHANGED <<removed, runtime_ok, sdkVars, client_sessions, client,
                   session_lock, client_lock, now, nops, nticks, authVars, cliVars, haVars>>

\* ------------------------------------------- api.py: async_available_models
\* api.py:498  the call, up to the client lock
StartModels(t) ==
    /\ Sched(t)
    /\ Called(t)
    /\ task[t].pc = "idle"
    /\ task' = Upd(t, Arrive(t, [IdleFrame EXCEPT !.op = "models", !.pc = "client_lock"],
                  session_lock, client_lock))
    /\ UNCHANGED <<adapterVars, sdkVars, client_sessions, client, session_lock,
                   client_lock, dropped, now, nticks, authVars, cliVars, haVars>>

\* api.py:499-508  await client.list_models()
Listing(t) ==
    /\ task[t].pc = "listing"
    /\ Sched(t)
    /\ \E o \in {"ok", "raise"} :
         task' = Upd(t, Ended(t, IF o = "ok" THEN "ok" ELSE "comm_err"))
    /\ UNCHANGED <<adapterVars, sdkVars, client_sessions, client, session_lock,
                   client_lock, dropped, now, nops, nticks, authVars, cliVars, haVars>>

\* ---------------------------------------------------- api.py: async_close
\* api.py:257-259  the call, up to the session lock
StartClose(t) ==
    /\ Sched(t)
    /\ Called(t)
    /\ task[t].pc = "idle"
    /\ task' = Upd(t, Arrive(t, [IdleFrame EXCEPT !.op = "close", !.pc = "close_lock"],
                  session_lock, client_lock))
    /\ UNCHANGED <<adapterVars, sdkVars, client_sessions, client, session_lock,
                   client_lock, dropped, now, nticks, authVars, cliVars, haVars>>

\* api.py:259-264  snapshot of the session ids under the session lock
CloseLock(t) ==
    /\ task[t].pc = "close_lock"
    /\ Sched(t)
    /\ session_lock = Free
    /\ task' = Upd(t, Arrive(t, [task[t] EXCEPT !.todo = client_sessions,
                                       !.pc = IF client_sessions = {} THEN "close_clock"
                                              ELSE "end_lock"],
                  session_lock, client_lock))
    /\ UNCHANGED <<adapterVars, sdkVars, client_sessions, client, session_lock,
                   client_lock, dropped, now, nops, nticks, authVars, cliVars, haVars>>

\* api.py:264-265  under the client lock: is there a client to stop
CloseClientLock(t) ==
    /\ task[t].pc = "close_clock"
    /\ Sched(t)
    /\ client_lock = Free
    /\ IF ClientHeld(client)
       THEN /\ client_lock' = t
            /\ task' = Upd(t, [task[t] EXCEPT !.pc = "close_stop", !.w = FALSE])
       ELSE /\ task' = Upd(t, Ended(t, "ok"))
            /\ UNCHANGED client_lock
    /\ UNCHANGED <<adapterVars, sdkVars, client_sessions, client, session_lock,
                   dropped, now, nops, nticks, authVars, cliVars, haVars>>

\* api.py:266-267  await self._client.stop(); self._client = None
CloseStop(t) ==
    /\ task[t].pc = "close_stop"
    /\ Sched(t)
    /\ cli' = [cli EXCEPT ![client] = "stopped"]
    /\ client_lock' = Free
    /\ \E o \in {"ok", "raise"} :
         /\ client' = IF o = "ok" THEN 0 ELSE client
         /\ task' = Upd(t, Ended(t, IF o = "ok" THEN "ok" ELSE "raised"))
    /\ UNCHANGED <<adapterVars, nsess, created_for, destroy_invoked, destroyed, authed,
                   client_sessions, session_lock, dropped, now, nops, nticks, authVars, cliVars, haVars>>

\* ------------------------------- conversation.py: async_will_remove_from_hass
\* conversation.py:62-87, up to the first await
StartRemove(t) ==
    /\ Sched(t)
    /\ Called(t)
    /\ task[t].pc = "idle"
    /\ ~removed
    /\ IF ~runtime_ok
       THEN /\ task' = Upd(t, [IdleFrame EXCEPT !.op = "remove", !.res = "no_client"])
            /\ removed' = TRUE
            /\ UNCHANGED <<sessions, session_last_used>>
       ELSE IF sessions = Empty
       THEN /\ task' = Upd(t, [IdleFrame EXCEPT !.op = "remove", !.res = "ok"])
            /\ removed' = TRUE
            /\ sessions' = Empty
            /\ session_last_used' = Empty
       ELSE /\ task' = Upd(t, Arrive(t, [IdleFrame EXCEPT !.op = "remove", !.pc = "end_lock",
                                                !.todo = DOMAIN sessions],
                                 session_lock, client_lock))
            /\ UNCHANGED <<sessions, session_last_used, removed>>
    /\ UNCHANGED <<runtime_ok, sdkVars, client_sessions, client, session_lock,
                   client_lock, dropped, now, nticks, authVars, cliVars, haVars>>

\* time passes
Tick ==
    /\ \A u \in Tasks : ~Running(u)
    /\ nticks < MaxTicks
    /\ nticks' = nticks + 1
    /\ \E d \in TickSteps : now' = now + d
    /\ UNCHANGED <<adapterVars, sdkVars, client_sessions, client, session_lock,
                   client_lock, dropped, nops, authVars, cliVars, haVars>>
    /\ task' = [u \in Tasks |-> Quiet(task[u])]

Next ==
    \/ \E t \in Tasks, c \in ConvIds, p \in Prompts : StartTurn(t, c, p)
    \/ \E t \in Tasks : EndLock(t)
    \/ \E t \in Tasks : EndDestroy(t)
    \/ \E t \in Tasks : CreateLock(t)
    \/ \E t \in Tasks : ClientLock(t)
    \/ \E t \in Tasks : Starting(t)
    \/ \E t \in Tasks : Authing(t)
    \/ \E t \in Tasks : Stopping(t)
    \/ \E t \in Tasks : Creating(t)
    \/ \E t \in Tasks : SendPrompt(t)
    \/ \E t \in Tasks : SendReply(t)
    \/ \E t \in Tasks : StartModels(t)
    \/ \E t \in Tasks : Listing(t)
    \/ \E t \in Tasks : StartClose(t)
    \/ \E t \in Tasks : CloseLock(t)
    \/ \E t \in Tasks : CloseClientLock(t)
    \/ \E t \in Tasks : CloseStop(t)
    \/ \E t \in Tasks : StartRemove(t)
    \/ Tick

Spec == Init /\ [][Next]_vars

\* The state the integration is in once a first turn, on conversation c1,
\* has been answered: a client is held, started and authenticated, and the
\* session created for c1 is in both the adapter's and the client's map.
Warm ==
    /\ AuthInit
    /\ HaInit
    /\ cli_env = DefaultEnv
    /\ cli_status = NoStatus
    /\ sessions = Put(Empty, "c1", "s1")
    /\ session_last_used = Put(Empty, "c1", 0)
    /\ removed = FALSE
    /\ runtime_ok = TRUE
    /\ client_sessions = {"s1"}
    /\ client = 1
    /\ session_lock = Free
    /\ client_lock = Free
    /\ cli = <<"started">>
    /\ nsess = 1
    /\ created_for = Put(Empty, "s1", "c1")
    /\ destroy_invoked = {}
    /\ destroyed = {}
    /\ authed = {1}
    /\ dropped = {}
    /\ now = 0
    /\ nticks = 0
    /\ \A t \in Tasks : task[t].pc = "idle"

\* Runs that go on from there, with MaxOps further operations.
InitWarm == task = [t \in Tasks |-> IdleFrame] /\ nops = 0 /\ Warm

SpecWarm == InitWarm /\ [][Next]_vars

\* A step of the operation task t has under way: the event loop runs the
\* task, or the SDK call it awaits returns or raises.
TaskStep(t) ==
    \/ EndLock(t)
    \/ EndDestroy(t)
    \/ CreateLock(t)
    \/ ClientLock(t)
    \/ Starting(t)
    \/ Authing(t)
    \/ Stopping(t)
    \/ Creating(t)
    \/ SendPrompt(t)
    \/ SendReply(t)
    \/ Listing(t)
    \/ CloseLock(t)
    \/ CloseClientLock(t)
    \/ CloseStop(t)

\* The event loop runs every task that can run, and every SDK call that is
\* awaited comes back.
SpecLive == Init /\ [][Next]_vars /\ \A t \in Tasks : WF_vars(TaskStep(t))

\* --------------------------------------------- api.py: async_test_connection
\* api.py:112  the call, up to the session lock of async_create_session
StartTest(t) ==
    /\ Sched(t)
    /\ Called(t)
    /\ task[t].pc = "idle"
    /\ task' = Upd(t, Arrive(t, [IdleFrame EXCEPT !.op = "test", !.pc = "create_lock",
                                              !.prompt = "text"],
                  session_lock, client_lock))
    /\ UNCHANGED <<adapterVars, sdkVars, client_sessions, client, session_lock,
                   client_lock, dropped, now, nticks, authVars, cliVars, haVars>>

\* The operations of the adapter and the client, and the connection test
\* the setup wizard runs.
NextTest == Next \/ \E t \in Tasks : StartTest(t)

SpecTest == Init /\ [][NextTest]_vars

\* ================================================================== auth.py
\* calls of the authenticator, token requests of poll_for_token and clock
\* advances in one run
MaxAuthEvents == 4

\* token requests one poll_for_token call is followed for, and the answers
\* of a call that are kept
MaxPolls == 15
MaxHist == 3

\* auth.py:82  a token counts as expired 60 seconds before expires_at
ExpiryBuffer == 60
\* auth.py:220  a slow_down answer without an interval adds 5 seconds
SlowDownStep == 5

Creds == {"A", "B"}
\* expires_at - now of a token the exchange endpoint hands out
Lifetimes == {ExpiryBuffer, ExpiryBuffer + 1, 2 * ExpiryBuffer}
AuthTickSteps == {1, ExpiryBuffer}
\* interval and expires_in of a device code
Intervals == {1, SlowDownStep}
Expiries == {SlowDownStep, 3 * SlowDownStep}
\* the interval a slow_down answer may carry
CarriedIntervals == {1, SlowDownStep, 2 * SlowDownStep}

coreVars == <<adapterVars, sdkVars, client_sessions, client, session_lock,
              client_lock, dropped, task>>

QuietCall(f) == IF f.pc = "idle" THEN IdleCall ELSE f
QuietPoll(f) == IF f.pc = "idle" THEN IdlePoll ELSE f
CallUpd(t, f) == [u \in Tasks |-> IF u = t THEN f ELSE QuietCall(acall[u])]
QuietCalls == [u \in Tasks |-> QuietCall(acall[u])]

\* One more event of a run of the authenticator.
AuthCalled == nops < MaxAuthEvents /\ nops' = nops + 1

\* An expiry test without the buffer.
IsExpiredNoBuffer(tok, t) == t >= tok.expires_at

\* auth.py:78-82  CopilotToken.is_expired at time t
IsExpired(tok, t) == t >= tok.expires_at - ExpiryBuffer

\* auth.py:285  self._copilot_token and not self._copilot_token.is_expired
CacheValid(cache, t) == cache # {} /\ \A k \in cache : ~IsExpired(k, t)

\* auth.py:277-279  the argument, or else the stored token
ResolveCred(arg, stored) == IF arg # None THEN arg ELSE stored

\* auth.py:277-297  get_copilot_token up to its request
GetStart(t, arg) ==
    /\ acall[t].pc = "idle"
    /\ \A u \in Tasks : u < t => acall[u].pc # "idle"
    /\ AuthCalled
    /\ LET cred == ResolveCred(arg, github_token)
           f0 == [IdleCall EXCEPT !.arg = arg, !.cred = cred, !.held = copilot_token,
                                  !.at = now]
       IN  IF cred = None
           THEN /\ acall' = CallUpd(t, [f0 EXCEPT !.res = "no_token"])
                /\ UNCHANGED nreq
           ELSE IF CacheValid(copilot_token, now)
           THEN /\ acall' = CallUpd(t, [f0 EXCEPT !.res = "token", !.tok = copilot_token])
                /\ UNCHANGED nreq
           ELSE /\ acall' = CallUpd(t, [f0 EXCEPT !.pc = "fetching", !.sent = 1])
                /\ nreq' = nreq + 1
    /\ poll' = QuietPoll(poll)
    /\ UNCHANGED <<github_token, copilot_token, issued, now, nticks, coreVars, cliVars, haVars>>

ExchangeOutcomes == {"200", "401", "403", "500", "ClientError"}

\* Every answer is stored as a token.
ExchangedAlways(o, cache, k) == {k}

\* auth.py:298-333  self._copilot_token after the answer o: only a 200 comes
\* to the assignment at 333
Exchanged(o, cache, k) == IF o = "200" THEN {k} ELSE cache

\* auth.py:298-338  the exchange answers: any failure is GitHubAuthError, a
\* 200 is cached and returned
GetResponse(t) ==
    /\ acall[t].pc = "fetching"
    /\ \E o \in ExchangeOutcomes :
         IF o = "200"
         THEN \E life \in Lifetimes :
                LET k == [id |-> issued + 1, expires_at |-> now + life,
                          cred |-> acall[t].cred]
                IN  /\ issued' = issued + 1
                    /\ copilot_token' = Exchanged(o, copilot_token, k)
                    /\ acall' = CallUpd(t, [acall[t] EXCEPT !.pc = "idle", !.res = "token",
                                                            !.status = o, !.tok = {k}])
         ELSE /\ acall' = CallUpd(t, [acall[t] EXCEPT !.pc = "idle", !.res = "auth_error",
                                                      !.status = o])
              /\ copilot_token' = Exchanged(o, copilot_token, {})
              /\ UNCHANGED issued
    /\ poll' = QuietPoll(poll)
    /\ UNCHANGED <<github_token, nreq, now, nops, nticks, coreVars, cliVars, haVars>>

\* auth.py:358-362  set_github_token
SetGithubToken(c) ==
    /\ AuthCalled
    /\ github_token' = c
    /\ copilot_token' = {}
    /\ acall' = QuietCalls
    /\ poll' = QuietPoll(poll)
    /\ UNCHANGED <<issued, nreq, now, nticks, coreVars, cliVars, haVars>>

\* auth.py:364-367  clear_tokens
ClearTokens ==
    /\ AuthCalled
    /\ github_token' = None
    /\ copilot_token' = {}
    /\ acall' = QuietCalls
    /\ poll' = QuietPoll(poll)
    /\ UNCHANGED <<issued, nreq, now, nticks, coreVars, cliVars, haVars>>

\* ---------------------------------------------------- auth.py: poll_for_token
\* What the token endpoint may answer: an error code, with the interval a
\* slow_down may carry and the error_description any error may carry, or an
\* access token, or the request fails.
PollAnswers ==
    {[kind |-> k, carried |-> {}, cred |-> None, desc |-> None] :
        k \in {"authorization_pending", "slow_down", "expired_token",
               "access_denied", "other_error", "ClientError"}}
    \cup {[kind |-> "slow_down", carried |-> {i}, cred |-> None, desc |-> None] :
              i \in CarriedIntervals}
    \cup {[kind |-> k, carried |-> {}, cred |-> None, desc |-> "description"] :
              k \in {"expired_token", "access_denied", "other_error"}}
    \cup {[kind |-> "access_token", carried |-> {}, cred |-> c, desc |-> None] :
              c \in Creds}

\* Every error code raises the base error.
PollFailureBase(kind) == "auth_error"

\* auth.py:227-240  the error a terminal error code raises
PollFailure(kind) ==
    CASE kind = "expired_token" -> "timeout"
      [] kind = "access_denied" -> "denied"
      [] OTHER -> "auth_error"

\* auth.py:228-240  the text of that error: fixed for the first two, else
\* result.get("error_description", error)
ErrorText(r) ==
    CASE r.kind = "expired_token" -> "Device code expired. Please try again."
      [] r.kind = "access_denied" -> "Authorization was denied by the user."
      [] OTHER -> IF r.desc # None THEN r.desc ELSE r.kind

\* auth.py:219-221  result.get("interval", current_interval + 5)
SlowDown(cur, carried) ==
    IF carried = {} THEN cur + SlowDownStep ELSE CHOOSE i \in carried : TRUE

\* The call has ended with result r.
PollEnded(f, r) == [f EXCEPT !.pc = "idle", !.res = r]

\* auth.py:198, 256  the loop test at time t: sleep again, or time out
\* The loop is entered only before any time has passed.
PollLoopFirstOnly(f, t) ==
    IF t - f.start = 0 THEN [f EXCEPT !.pc = "sleeping"]
    ELSE PollEnded([f EXCEPT !.msg = "Device code expired. Please try again."], "timeout")

PollLoop(f, t) ==
    IF t - f.start < f.expires_in THEN [f EXCEPT !.pc = "sleeping"]
    ELSE PollEnded([f EXCEPT !.msg = "Device code expired. Please try again."], "timeout")

\* auth.py:195-199  poll_for_token(device_code, interval, expires_in)
PollStart(i, e) ==
    /\ poll.pc = "idle"
    /\ AuthCalled
    /\ poll' = PollLoop([IdlePoll EXCEPT !.interval = i, !.start = now, !.expires_in = e], now)
    /\ acall' = QuietCalls
    /\ UNCHANGED <<github_token, copilot_token, issued, nreq, now, nticks, coreVars, cliVars, haVars>>

\* A sleep that takes no time.
SleptNoTime(t, i) == t

\* auth.py:199  the time after asyncio.sleep(i) that began at time t
Slept(t, i) == t + i

\* auth.py:199-206  asyncio.sleep(current_interval) is over, the request goes out
PollWake ==
    /\ poll.pc = "sleeping"
    /\ poll.sent < MaxPolls
    /\ now' = Slept(now, poll.interval)
    /\ poll' = [poll EXCEPT !.pc = "posting", !.sent = @ + 1]
    /\ acall' = QuietCalls
    /\ UNCHANGED <<github_token, copilot_token, issued, nreq, nticks, coreVars, cliVars, haVars>>

\* One token request, counted as an event of the run.
PollSleep == AuthCalled /\ PollWake

\* One token request of a call that is followed to its end.
PollSleepOn == PollWake /\ UNCHANGED nops

\* auth.py:207-254  the answer to one token request
PollAnswer ==
    /\ poll.pc = "posting"
    /\ \E r \in PollAnswers :
         LET f == [poll EXCEPT !.last = r.kind,
                               !.hist = IF Len(@) < MaxHist THEN Append(@, r.kind) ELSE @,
                               !.desc = r.desc]
         IN  CASE r.kind \in {"authorization_pending", "ClientError"} ->
                    /\ poll' = PollLoop(f, now)
                    /\ UNCHANGED github_token
               [] r.kind = "slow_down" ->
                    /\ poll' = PollLoop([f EXCEPT !.interval = SlowDown(@, r.carried)], now)
                    /\ UNCHANGED github_token
               [] r.kind \in {"expired_token", "access_denied", "other_error"} ->
                    /\ poll' = PollEnded([f EXCEPT !.msg = ErrorText(r)], PollFailure(r.kind))
                    /\ UNCHANGED github_token
               [] OTHER ->
                    /\ poll' = PollEnded([f EXCEPT !.cred = r.cred], "token")
                    /\ github_token' = r.cred
    /\ acall' = QuietCalls
    /\ UNCHANGED <<copilot_token, issued, nreq, now, nops, nticks, coreVars, cliVars, haVars>>

\* time passes
AuthTick ==
    /\ AuthCalled
    /\ \E d \in AuthTickSteps : now' = now + d
    /\ acall' = QuietCalls
    /\ poll' = QuietPoll(poll)
    /\ UNCHANGED <<github_token, copilot_token, issued, nreq, nticks, coreVars, cliVars, haVars>>

InitAuth == Init /\ runtime_ok

NextAuth ==
    \/ \E t \in Tasks, arg \in Creds \cup {None} : GetStart(t, arg)
    \/ \E t \in Tasks : GetResponse(t)
    \/ \E c \in Creds : SetGithubToken(c)
    \/ ClearTokens
    \/ \E i \in Intervals, e \in Expiries : PollStart(i, e)
    \/ PollSleep
    \/ PollAnswer
    \/ AuthTick

SpecAuth == InitAuth /\ [][NextAuth]_vars

\* One call of poll_for_token followed to its end: every sleep ends and every
\* request is answered or fails.
PollStartOnce(i, e) == nops = 0 /\ PollStart(i, e)

\* Time that passes besides the sleeps, while a request is sent or answered.
PollLatency == nops = 1 /\ AuthTick

NextPoll ==
    \/ \E i \in Intervals, e \in Expiries : PollStartOnce(i, e)
    \/ PollSleepOn
    \/ PollAnswer
    \/ PollLatency

SpecPoll == InitAuth /\ [][NextPoll]_vars /\ WF_vars(PollSleepOn) /\ WF_vars(PollAnswer)

\* ============================================== api.py: _check_cli_installed
\* api.py:289-293  isinstance(candidate, str) and candidate.strip()
IsCandidate(v) == v # None /\ v # " "

\* api.py:284-294  the first candidate that is given; `copilot` is always one
CliToCheck(e) ==
    IF IsCandidate(e.option) THEN e.option
    ELSE IF IsCandidate(e.environ) THEN e.environ
    ELSE "copilot"

\* No explicit value counts as requested.
ExplicitRequestedNever(e) == FALSE

\* api.py:295-303  the option or the environment variable names a CLI
ExplicitRequested(e) == IsCandidate(e.option) \/ IsCandidate(e.environ)

\* shutil.which: a path is returned as it is when it is an executable file,
\* a bare name is looked up on PATH
Which(e, v) ==
    IF v = AbsPath THEN (IF e.file = "executable" THEN v ELSE None)
    ELSE IF v \in e.onpath THEN "/path/" \o v
    ELSE None

\* api.py:322-327  the value to check is a path, not a bare name
IsExplicitPath(v) == v # "copilot" /\ v = AbsPath

\* api.py:376-380  the first well-known location that holds an executable
FirstCommon(e) ==
    IF e.common = {} THEN None
    ELSE CommonPaths[CHOOSE i \in e.common : \A j \in e.common : i <= j]

\* api.py:329-344, 346-363, 382-386  a status that reports no CLI
NotInstalled(why) ==
    [checked |-> TRUE, cli_installed |-> FALSE, cli_path |-> None, error_details |-> why]

\* api.py:365-368, 377-379  a status that reports the CLI at path p
Installed(p) ==
    [checked |-> TRUE, cli_installed |-> TRUE, cli_path |-> p, error_details |-> ""]

\* api.py:269-396
CheckCliInstalled(e) ==
    LET cli_to_check == CliToCheck(e)
        cli_path == Which(e, cli_to_check)
    IN  IF /\ ExplicitRequested(e)
           /\ IsExplicitPath(cli_to_check)
           /\ e.file = "not_executable"
        THEN NotInstalled("exists but is not executable")
        ELSE IF ExplicitRequested(e) /\ cli_path = None
        THEN NotInstalled("was not found or is not executable")
        ELSE IF cli_path # None
        THEN Installed(cli_path)
        ELSE IF FirstCommon(e) # None
        THEN Installed(FirstCommon(e))
        ELSE NotInstalled("was not found or is not executable")

\* api.py:405  _check_cli_installed is called
CheckCli ==
    /\ cli_status' = CheckCliInstalled(cli_env)
    /\ UNCHANGED <<cli_env, coreVars, authVars, haVars, now, nops, nticks>>

\* The option, the environment variable or the files change between checks.
ChangeCliEnv ==
    /\ \/ \E v \in CliValues : cli_env' = [cli_env EXCEPT !.option = v]
       \/ \E v \in CliValues : cli_env' = [cli_env EXCEPT !.environ = v]
       \/ \E n \in SUBSET CliNames : cli_env' = [cli_env EXCEPT !.onpath = n]
       \/ \E f \in FileStates : cli_env' = [cli_env EXCEPT !.file = f]
       \/ \E c \in SUBSET (1..Len(CommonPaths)) : cli_env' = [cli_env EXCEPT !.common = c]
    /\ cli_env' # cli_env
    /\ cli_status' = NoStatus
    /\ UNCHANGED <<coreVars, authVars, haVars, now, nops, nticks>>

InitCli ==
    /\ BaseInit
    /\ HaInit
    /\ runtime_ok
    /\ cli_env \in CliEnvs
    /\ cli_status = NoStatus

NextCli == CheckCli \/ ChangeCliEnv

SpecCli == InitCli /\ [][NextCli]_vars

\* ------------------------------------ config_flow.py: GitHubCopilotFlowHandler
\* What the calls a step awaits may give it: start_device_flow a device code,
\* GitHubAuthError or another exception; poll_for_token a token or one of its
\* three errors; get_copilot_token the answers of the exchange endpoint.
DeviceFlowOutcomes == {"ok", "auth_error", "raised"}
PollOutcomes ==
    {[res |-> "token", cred |-> c] : c \in Creds}
    \cup {[res |-> PollFailure(k), cred |-> None] :
              k \in {"expired_token", "access_denied", "other_error"}}

\* async_show_form(step_id=step, errors=err)
ShowForm(f, step, err) == [f EXCEPT !.step = step, !.errors = err]

\* config_flow.py:45-80  async_step_user; given tells whether user_input is
\* not None, configured whether the unique id is configured already, d is
\* the outcome of start_device_flow.  The call of async_step_authorize at 67
\* finds both fields set and shows the authorize form (123-131).
StepUser(f, given, configured, d) ==
    IF configured THEN [f EXCEPT !.step = "abort", !.errors = None]
    ELSE IF given
    THEN CASE d = "ok" ->
                ShowForm([f EXCEPT !.auth = TRUE, !.device = TRUE], "authorize", None)
           [] d = "auth_error" ->
                ShowForm([f EXCEPT !.auth = TRUE], "user", "device_flow_failed")
           [] OTHER -> [f EXCEPT !.auth = TRUE]
    ELSE ShowForm(f, "user", None)

\* config_flow.py:152-158  user_input.get(key, default) for the three settings
Default(k) ==
    CASE k = CONF_MODEL -> DEFAULT_MODEL
      [] k = CONF_MAX_TOKENS -> DEFAULT_MAX_TOKENS
      [] k = CONF_TEMPERATURE -> DEFAULT_TEMPERATURE

\* config_flow.py:146-160  the entry async_create_entry is given
CreatedEntry(tok, input) ==
    [version |-> 2,
     data |-> [k \in {CONF_GITHUB_TOKEN} |-> tok],
     options |-> [k \in SettingKeys |-> Get(input, k, Default(k))]]

\* config_flow.py:133-199  async_step_configure
StepConfigure(f, given, input, configured) ==
    IF f.github_token = None THEN StepUser(f, FALSE, configured, "ok")
    ELSE IF given
    THEN [f EXCEPT !.step = "create_entry", !.errors = None,
                   !.created = {CreatedEntry(f.github_token, input)}]
    ELSE ShowForm(f, "configure", None)

\* config_flow.py:112-121  the error the authorize form shows.  Of the
\* errors get_copilot_token raises, the one for 403 has "Copilot
\* subscription" in its text (auth.py:306-309).
PollErrorKey(r) ==
    CASE r = "timeout" -> "authorization_pending"
      [] r = "denied" -> "authorization_denied"
      [] OTHER -> "auth_failed"
GetErrorKey(g) == IF g = "403" THEN "no_copilot_subscription" ELSE "auth_failed"

\* Every answer counts as a Copilot token.
ValidatedAlways(g) == TRUE

\* config_flow.py:107  get_copilot_token returns instead of raising
Validated(g) == g = "200"

\* config_flow.py:82-131  async_step_authorize; p is what poll_for_token
\* gives if it is called, g the answer to get_copilot_token's request
StepAuthorize(f, given, configured, p, g) ==
    IF ~f.device \/ ~f.auth THEN StepUser(f, FALSE, configured, "ok")
    ELSE IF given
    THEN IF f.github_token = None /\ p.res # "token"
         THEN ShowForm(f, "authorize", PollErrorKey(p.res))
         ELSE LET f1 == IF f.github_token = None
                        THEN [f EXCEPT !.github_token = p.cred, !.polled = p.cred]
                        ELSE f
                  f2 == IF g = "200"
                        THEN [f1 EXCEPT !.validated = @ \cup {f1.github_token}]
                        ELSE f1
              IN  IF Validated(g)
                  THEN StepConfigure(f2, FALSE, Empty, configured)
                  ELSE ShowForm(f2, "authorize", GetErrorKey(g))
    ELSE ShowForm(f, "authorize", None)

FlowSteps == {"user", "authorize", "configure"}

\* The step s is called, with user input or without.
StepCall(f, s, given, configured) ==
    LET g == [f EXCEPT !.called = s, !.input = given]
    IN  CASE s = "user" ->
               {StepUser(g, given, configured, d) : d \in DeviceFlowOutcomes}
          [] s = "authorize" ->
               {StepAuthorize(g, given, configured, p, o) :
                    p \in PollOutcomes, o \in ExchangeOutcomes}
          [] s = "configure" ->
               {StepConfigure(g, given, input, configured) : input \in SettingDicts}

FlowUnchanged == UNCHANGED <<coreVars, authVars, cliVars, entry, settings, hass_data,
                             unit, now, nops, nticks>>

\* The flow begins: the flow manager calls async_step_user without input.
FlowBegin ==
    /\ flow.step = None
    /\ \E configured \in BOOLEAN : flow' \in StepCall(flow, "user", FALSE, configured)
    /\ FlowUnchanged

\* The user submits the form shown: the flow manager calls the step the
\* form names, with the input.
FlowSubmit ==
    /\ flow.step \in FlowSteps
    /\ \E configured \in BOOLEAN : flow' \in StepCall(flow, flow.step, TRUE, configured)
    /\ FlowUnchanged

\* A step is called that is not the one the form shown names, or is called
\* without input.
FlowDirect ==
    /\ flow.step \in FlowSteps
    /\ \E s \in FlowSteps, given \in BOOLEAN, configured \in BOOLEAN :
         /\ ~(s = flow.step /\ given)
         /\ \E f \in StepCall(flow, s, given, configured) :
                flow' = [f EXCEPT !.direct = TRUE]
    /\ FlowUnchanged

NextFlow == FlowBegin \/ FlowSubmit \/ FlowDirect

SpecFlow == InitAuth /\ [][NextFlow]_vars

\* ------------------------------- __init__.py: async_setup_entry, async_migrate_entry
\* d2 laid over d1.
Merge(d1, d2) ==
    [k \in (DOMAIN d1) \cup (DOMAIN d2) |-> IF k \in DOMAIN d2 THEN d2[k] ELSE d1[k]]

\* The token part of entry.data: api_token in the old format, github_token
\* in the new one.
TokenDicts ==
    {Restrict([api_token |-> a, github_token |-> g], S) :
        a \in Creds, g \in Creds, S \in SUBSET {CONF_API_TOKEN, CONF_GITHUB_TOKEN}}

Entries ==
    {[version |-> v, data |-> Merge(t, d), options |-> o] :
        v \in {1, 2}, t \in TokenDicts, d \in SettingDicts, o \in SettingDicts}

\* bool(v) of a setting: a string is false when empty, a number when zero
Truthy(k, v) == IF k = CONF_MODEL THEN v # "" ELSE v # 0

\* __init__.py:71-77  entry.options.get(k) or entry.data.get(k, default)
SettingOf(e, k) ==
    IF k \in DOMAIN e.options /\ Truthy(k, e.options[k])
    THEN e.options[k]
    ELSE Get(e.data, k, Default(k))

\* __init__.py:55  entry.data.get(CONF_GITHUB_TOKEN) or entry.data.get(CONF_API_TOKEN)
GithubTokenOf(e) ==
    IF CONF_GITHUB_TOKEN \in DOMAIN e.data THEN e.data[CONF_GITHUB_TOKEN]
    ELSE Get(e.data, CONF_API_TOKEN, None)

EntryUnchanged == UNCHANGED <<coreVars, authVars, cliVars, flow, hass_data, unit,
                              now, nops, nticks>>

\* __init__.py:44-113  async_setup_entry: False without a token; else the
\* client gets the three settings, and the first refresh or the platform
\* setup after that succeeds or raises
SetupEntry ==
    /\ IF GithubTokenOf(entry) = None
       THEN settings' = [NoSettings EXCEPT !.op = "setup", !.ret = "false",
                                           !.before = entry]
       ELSE \E r \in {"true", "raised"} :
              settings' = [op |-> "setup", ret |-> r, before |-> entry,
                           model |-> SettingOf(entry, CONF_MODEL),
                           max_tokens |-> SettingOf(entry, CONF_MAX_TOKENS),
                           temperature |-> SettingOf(entry, CONF_TEMPERATURE)]
    /\ UNCHANGED entry
    /\ EntryUnchanged

\* A migration that leaves the version as it was.
MigratedSameVersion(e) ==
    IF e.version = 1
    THEN [version |-> e.version,
          data |-> IF CONF_API_TOKEN \in DOMAIN e.data
                   THEN [k \in {CONF_GITHUB_TOKEN} |-> e.data[CONF_API_TOKEN]]
                   ELSE Empty,
          options |-> Restrict(e.data, SettingKeys)]
    ELSE e

\* __init__.py:158-181  the entry async_migrate_entry leaves
Migrated(e) ==
    IF e.version = 1
    THEN [version |-> 2,
          data |-> IF CONF_API_TOKEN \in DOMAIN e.data
                   THEN [k \in {CONF_GITHUB_TOKEN} |-> e.data[CONF_API_TOKEN]]
                   ELSE Empty,
          options |-> Restrict(e.data, SettingKeys)]
    ELSE e

\* __init__.py:151-185  async_migrate_entry
MigrateEntry ==
    /\ entry' = Migrated(entry)
    /\ settings' = [NoSettings EXCEPT !.op = "migrate", !.ret = "true", !.before = entry]
    /\ EntryUnchanged

InitEntry ==
    /\ BaseInit
    /\ runtime_ok
    /\ cli_env = DefaultEnv
    /\ cli_status = NoStatus
    /\ flow = NoFlow
    /\ entry \in Entries
    /\ settings = NoSettings
    /\ hass_data = NoBucket
    /\ unit = [e \in EntryIds |-> IdleUnit]

NextEntry == SetupEntry \/ MigrateEntry

SpecEntry == InitEntry /\ [][NextEntry]_vars

\* --------------------------------------------- copilot_assistant/__init__.py
UnitUnchanged == UNCHANGED <<coreVars, authVars, cliVars, flow, entry, settings,
                             now, nops, nticks>>

\* Entry e's frame becomes f.
UnitUpd(e, f) == [unit EXCEPT ![e] = f]

\* copilot_assistant/__init__.py:21-31, 39-44  async_setup_entry up to
\* client.start(): without access_token in entry.data the KeyError is logged
\* and raised again.  Home Assistant sets up an entry that is not loaded.
CaSetup(e) ==
    /\ unit[e].pc = "idle"
    /\ e \notin hass_data.ids
    /\ IF unit[e].has_token
       THEN unit' = UnitUpd(e, [unit[e] EXCEPT !.pc = "starting", !.op = "setup",
                                               !.ret = None, !.cstate = "constructed"])
       ELSE unit' = UnitUpd(e, [unit[e] EXCEPT !.op = "setup", !.ret = "raised",
                                               !.cstate = None])
    /\ UNCHANGED hass_data
    /\ UnitUnchanged

\* copilot_assistant/__init__.py:31-44  client.start() returns and the client
\* is stored, or it raises and so does the setup
CaStarted(e) ==
    /\ unit[e].pc = "starting"
    /\ \/ /\ hass_data' = [exists |-> TRUE, ids |-> hass_data.ids \cup {e}]
          /\ unit' = UnitUpd(e, [unit[e] EXCEPT !.pc = "idle", !.ret = "true",
                                                !.cstate = "started"])
       \/ /\ unit' = UnitUpd(e, [unit[e] EXCEPT !.pc = "idle", !.ret = "raised",
                                                !.cstate = "start_failed"])
          /\ UNCHANGED hass_data
    /\ UnitUnchanged

\* copilot_assistant/__init__.py:47-55, 59-64  async_unload_entry up to
\* client.stop(): hass.data[DOMAIN] raises KeyError when the bucket is not
\* there, and the unload returns False; pop takes the client out, and
\* without a client the unload returns True
CaUnload(e) ==
    /\ unit[e].pc = "idle"
    /\ IF ~hass_data.exists
       THEN /\ unit' = UnitUpd(e, [unit[e] EXCEPT !.op = "unload", !.ret = "false",
                                                    !.cstate = None])
            /\ UNCHANGED hass_data
       ELSE /\ hass_data' = [hass_data EXCEPT !.ids = @ \ {e}]
            /\ IF e \in hass_data.ids
               THEN unit' = UnitUpd(e, [unit[e] EXCEPT !.pc = "stopping",
                                                       !.op = "unload", !.ret = None])
               ELSE unit' = UnitUpd(e, [unit[e] EXCEPT !.op = "unload", !.ret = "true",
                                                       !.cstate = None])
    /\ UnitUnchanged

\* An unload that lets the error of client.stop() through.
UnloadReturnsUnguarded(ok) == IF ok THEN "true" ELSE "raised"

\* copilot_assistant/__init__.py:55-64  what the unload returns once
\* client.stop() has returned (ok) or raised
UnloadReturns(ok) == IF ok THEN "true" ELSE "false"

\* copilot_assistant/__init__.py:55-64  client.stop() returns or raises
CaStopped(e) ==
    /\ unit[e].pc = "stopping"
    /\ \E ok \in BOOLEAN :
         unit' = UnitUpd(e, [unit[e] EXCEPT !.pc = "idle", !.ret = UnloadReturns(ok),
                                            !.cstate = IF ok THEN "stopped"
                                                       ELSE "stop_failed"])
    /\ UNCHANGED hass_data
    /\ UnitUnchanged

InitUnload ==
    /\ BaseInit
    /\ runtime_ok
    /\ cli_env = DefaultEnv
    /\ cli_status = NoStatus
    /\ flow = NoFlow
    /\ entry = NoEntry
    /\ settings = NoSettings
    /\ hass_data = NoBucket
    /\ unit \in [EntryIds -> {[IdleUnit EXCEPT !.has_token = b] : b \in BOOLEAN}]

NextUnload ==
    \E e \in EntryIds : CaSetup(e) \/ CaStarted(e) \/ CaUnload(e) \/ CaStopped(e)

SpecUnload == InitUnload /\ [][NextUnload]_vars

\* ======================================================== adapter and client
ClientErrors == {"auth_err", "comm_err", "generic_err"}

\* Task t has just returned from operation op.
Returned(t, op) == task[t].pc = "idle" /\ task[t].op = op

\* Task t runs a turn that has its session and is about to send, or is
\* waiting for the reply.
AtSend(t) == task[t].op = "turn" /\ task[t].pc \in {"send", "sending"}

\* Sessions the remote side still holds for conversation c.
LiveFor(c) == {s \in DOMAIN created_for :
                 created_for[s] = c /\ s \in client_sessions /\ s \notin destroy_invoked}

\* C1: when async_send_prompt raises a client error in a turn, the turn's
\* conversation id is in neither adapter map as async_process returns; a turn
\* that reaches its send straight from the lookup holds the session the
\* adapter maps its conversation to; and no turn sends to a session that had
\* been dropped after a failure before the turn began, it sends to a session
\* created for its own conversation.
C1_FailedTurnStartsFresh ==
    \A t \in Tasks :
       /\ (Returned(t, "turn") /\ task[t].res \in ClientErrors /\ task[t].sid # None)
            => /\ task[t].conv \notin DOMAIN sessions
               /\ task[t].conv \notin DOMAIN session_last_used
       /\ (AtSend(t) /\ task[t].pc = "send" /\ ~task[t].w)
            => /\ task[t].conv \in DOMAIN sessions
               /\ sessions[task[t].conv] = task[t].sid
       /\ AtSend(t)
            => /\ task[t].sid \notin task[t].stale
               /\ created_for[task[t].sid] = task[t].conv

\* A turn waits for the reply of a new session of a conversation whose
\* earlier session failed and was dropped.
C1_Witness ==
    \E t \in Tasks :
       /\ AtSend(t) /\ task[t].pc = "sending"
       /\ \E s \in task[t].stale : created_for[s] = task[t].conv /\ s # task[t].sid

\* destroy() was called in this step and raised.
DestroyRaised == destroy_invoked' # destroy_invoked /\ destroyed' = destroyed

\* Task t is the only one with an operation under way.
Alone(t) == \A u \in Tasks \ {t} : task[u].pc = "idle"

\* C2: when the sweep of a turn, no other operation being under way, is done
\* with an expired conversation id, and no destroy() has raised, the id is in
\* neither adapter map, and the session the adapter held for it has been
\* destroyed and is not in the client's session map.
C2_SweepDestroysSession ==
    [][\A t \in Tasks, c \in ConvIds :
         (/\ task[t].op = "turn"
          /\ task[t].pc \in {"end_lock", "end_destroy"}
          /\ c \in task[t].todo
          /\ c \in DOMAIN sessions
          /\ Alone(t)
          /\ ~DestroyRaised
          /\ \/ task'[t].pc \notin {"end_lock", "end_destroy"}
             \/ c \notin task'[t].todo)
         => /\ c \notin DOMAIN sessions'
            /\ c \notin DOMAIN session_last_used'
            /\ sessions[c] \in destroyed'
            /\ sessions[c] \notin client_sessions']_vars

\* C3: as async_will_remove_from_hass, no other operation being under way,
\* returns with an accessible client, both adapter maps are empty, and
\* destroy() has been called on every session the adapter held until then and
\* none of them is in the client's session map.
C3_RemoveLeavesNoSession ==
    [][\A t \in Tasks :
         (/\ task[t].op = "remove"
          /\ task[t].pc # "idle"
          /\ Alone(t)
          /\ task'[t].pc = "idle"
          /\ task'[t].res = "ok")
         => /\ sessions' = Empty
            /\ session_last_used' = Empty
            /\ \A c \in DOMAIN sessions :
                  /\ sessions[c] \in destroy_invoked'
                  /\ sessions[c] \notin client_sessions']_vars

\* C4: no conversation id has two sessions created for it alive at once.
C4_OneSessionPerConversation ==
    \A c \in ConvIds : Cardinality(LiveFor(c)) <= 1

\* Clients that have started and on which stop() has not been called.
StartedClients == {k \in 1..Len(cli) : cli[k] = "started"}

\* C5: at most one client is started and not stopped; it is the held
\* client or the one whose authentication is being checked under the client
\* lock; no client is being started while one is held; and a call that ends
\* with the authentication error of _ensure_client has stopped its client.
C5_OneClientStarted ==
    /\ Cardinality(StartedClients) <= 1
    /\ \A k \in StartedClients :
          \/ k = client
          \/ \E t \in Tasks : /\ task[t].cl = k
                               /\ task[t].pc \in {"authing", "stopping"}
                               /\ client_lock = t
    /\ \A t \in Tasks :
          /\ task[t].pc \in {"starting", "authing", "stopping"} => client = 0
          /\ (task[t].pc = "idle" /\ task[t].res = "auth_err")
               => cli[task[t].cl] = "stopped"

\* The second operation of a run is handed the client the first one started.
C5_Witness ==
    /\ nops = 2
    /\ Len(cli) = 1
    /\ \E t \in Tasks : /\ task[t].pc \in {"creating", "listing"}
                         /\ task[t].cl = client
                         /\ cli[client] = "started"

\* C6: while a call of async_create_session waits for the remote
\* create_session, a turn on another conversation id whose session exists
\* can look its session up, and async_end_session can remove a session.
C6_LookupDuringCreate ==
    \A t, u \in Tasks :
       (t # u /\ task[u].pc = "creating")
         => /\ (/\ AtSend(t) /\ task[t].pc = "send" /\ task[t].prompt = "text"
                /\ task[t].conv # task[u].conv
                /\ task[t].sid \in client_sessions)
                 => ENABLED SendPrompt(t)
            /\ task[t].pc = "end_lock" => ENABLED EndLock(t)

\* ============================================================ authenticator
\* Call t of get_copilot_token has just returned a token.
GotToken(t) == acall[t].pc = "idle" /\ acall[t].res = "token"

\* Every token of cache is more than the buffer away from its expiry at time t.
Fresh(cache, t) == cache # {} /\ \A k \in cache : t < k.expires_at - ExpiryBuffer

\* C7: every token get_copilot_token returns, cached or just fetched, has
\* now < expires_at - 60 as it is returned.
C7_ReturnedTokenNotExpired ==
    \A t \in Tasks :
       GotToken(t) => \A k \in acall[t].tok : now < k.expires_at - ExpiryBuffer

\* Call t of get_copilot_token begins in this step.
Begins(t) ==
    /\ acall[t].pc = "idle"
    /\ acall'[t].pc = "fetching" \/ acall'[t].res # None

\* C8: a call of get_copilot_token made while the cached token has
\* now < expires_at - 60 sends no exchange request, leaves the cache as it is
\* and, given a credential, returns the cached token; a call with a
\* credential made when the cache is empty or past that bound sends exactly
\* one request, and when the request is answered with a token, that token
\* is returned and replaces the cache.
C8_ReuseThenRefreshOnce ==
    [][\A t \in Tasks :
         /\ (Begins(t) /\ Fresh(copilot_token, now))
              => /\ nreq' = nreq
                 /\ copilot_token' = copilot_token
                 /\ acall'[t].cred # None
                      => acall'[t].res = "token" /\ acall'[t].tok = copilot_token
         /\ (Begins(t) /\ ~Fresh(copilot_token, now) /\ acall'[t].cred # None)
              => /\ nreq' = nreq + 1
                 /\ acall'[t].pc = "fetching"
                 /\ acall'[t].sent = 1
         /\ (acall[t].pc = "fetching" /\ acall'[t].pc = "idle")
              => /\ nreq' = nreq
                 /\ acall'[t].sent = 1
                 /\ acall'[t].res = "token"
                      => /\ copilot_token' = acall'[t].tok
                         /\ acall'[t].tok # acall[t].held
                         /\ acall'[t].tok # {}]_vars

\* A call has found the cached token past the bound, has sent the second
\* request of the run and returned the token it was answered with.
C8_Witness ==
    \E t \in Tasks :
       /\ GotToken(t)
       /\ acall[t].sent = 1
       /\ acall[t].held # {}
       /\ ~Fresh(acall[t].held, acall[t].at)
       /\ nreq = 2
       /\ copilot_token = acall[t].tok

\* C9: a token get_copilot_token returns was derived from the credential
\* that call used, never from an earlier one.
C9_TokenOfCurrentCredential ==
    \A t \in Tasks :
       GotToken(t) => \A k \in acall[t].tok : k.cred = acall[t].cred

\* C10: an authorization_pending answer leaves the polling interval as it
\* was, and after a slow_down answer, with or without an interval of its own,
\* the interval of the next poll is greater than the one in use before.
C10_SlowDownIncreasesInterval ==
    [][(poll.pc = "posting" /\ poll'.pc = "sleeping")
         => /\ poll'.last = "authorization_pending" => poll'.interval = poll.interval
            /\ poll'.last = "slow_down" => poll'.interval > poll.interval]_vars

\* The answers that make poll_for_token go round its loop again.
Continues == {"authorization_pending", "slow_down", "ClientError"}

\* C11: an authorization_pending answer received while less than expires_in
\* has elapsed makes poll_for_token go on polling without raising and without
\* touching the stored GitHub token; when the answers are
\* authorization_pending, authorization_pending and then an access token, the
\* call returns that token at the third request, after exactly two pending
\* cycles, and stores it as the GitHub token.
C11_TwoPendingThenToken ==
    [][(poll.pc = "posting" /\ poll'.hist # poll.hist)
         => /\ (poll'.last = "authorization_pending" /\ now - poll.start < poll.expires_in)
                 => /\ poll'.pc = "sleeping"
                    /\ poll'.res = None
                    /\ poll'.sent = poll.sent
                    /\ github_token' = github_token
            /\ poll'.hist = <<"authorization_pending", "authorization_pending", "access_token">>
                 => /\ poll'.pc = "idle"
                    /\ poll'.res = "token"
                    /\ poll'.sent = 3
                    /\ poll'.cred # None
                    /\ github_token' = poll'.cred]_vars

\* poll_for_token has returned a token after two pending answers, replacing
\* nothing but the stored GitHub token.
C11_Witness ==
    /\ poll.pc = "idle"
    /\ poll.res = "token"
    /\ poll.hist = <<"authorization_pending", "authorization_pending", "access_token">>
    /\ poll.sent = 3
    /\ github_token = poll.cred

\* C12: poll_for_token ends with the timeout error when the endpoint answers
\* expired_token or when expires_in has elapsed at the loop test, with the
\* denied error on access_denied, and with the base error carrying the
\* error_description, or the error code when there is none, on any other
\* error string; in each of these cases the stored GitHub token is unchanged.
C12_PollFailures ==
    [][(poll.pc = "posting" /\ poll'.pc = "idle")
         => /\ poll'.res = "timeout"
                 <=> \/ poll'.last = "expired_token"
                     \/ poll'.last \in Continues /\ now - poll.start >= poll.expires_in
            /\ poll'.res = "denied" <=> poll'.last = "access_denied"
            /\ poll'.res = "auth_error" <=> poll'.last = "other_error"
            /\ poll'.res = "auth_error"
                 => poll'.msg = IF poll'.desc # None THEN poll'.desc ELSE poll'.last
            /\ poll'.res \in {"timeout", "denied", "auth_error"}
                 => github_token' = github_token]_vars

\* With a GitHub token stored, poll_for_token has ended with the base error
\* carrying the endpoint's error_description, and the token is still stored.
C12_Witness ==
    /\ poll.pc = "idle"
    /\ poll.res = "auth_error"
    /\ poll.last = "other_error"
    /\ poll.msg = "description"
    /\ github_token # None

\* C13: async_process never raises: whatever the client raises while the
\* turn's session is created or its prompt is sent, and when runtime_data has
\* no client, the turn returns a result and no exception leaves it.
C13_TurnNeverRaises ==
    \A t \in Tasks : Returned(t, "turn") => task[t].res # "raised"

\* Task t runs a turn that is in its sweep of expired sessions.
InSweep(t) == task[t].op = "turn" /\ task[t].pc \in {"end_lock", "end_destroy"}

\* C14: nothing that happens while a turn sweeps expired sessions ends the
\* turn: whether async_end_session returns or raises, the turn stays in the
\* sweep or goes on, for the same conversation, to send on the session the
\* adapter holds for it or to create one.
C14_SweepNeverFailsTurn ==
    [][\A t \in Tasks :
         InSweep(t)
           => /\ task'[t].op = "turn"
              /\ task'[t].conv = task[t].conv
              /\ task'[t].res = None
              /\ \/ InSweep(t)'
                 \/ task'[t].pc = "send" /\ task[t].conv \in DOMAIN sessions'
                 \/ task'[t].pc = "create_lock" /\ task[t].conv \notin DOMAIN sessions']_vars

\* A turn is past its sweep, in which destroy() raised for an expired id
\* that the adapter therefore still holds, and is about to send or create.
C14_Witness ==
    \E t \in Tasks :
       /\ task[t].op = "turn"
       /\ task[t].pc \in {"send", "create_lock", "client_lock", "sending"}
       /\ \E k \in Expired(session_last_used, now) :
             SweepKey(k) \in destroy_invoked \ destroyed

\* Task t is about to call async_send_prompt with a blank prompt.
BlankSend(t) == task[t].pc = "send" /\ task[t].prompt = "blank"

\* C15: async_send_prompt called with an empty or whitespace-only prompt
\* does not wait for the session lock and raises the generic error at once,
\* whether or not the client knows the session id, with no remote call made
\* and the client's session map and locks as they were.
C15_BlankPromptRejected ==
    [][\A t \in Tasks :
         BlankSend(t)
           => /\ ~task[t].w
              /\ task'[t].pc = "idle"
              /\ task'[t].res = "generic_err"
              /\ UNCHANGED <<client_sessions, session_lock, client_lock, client, sdkVars>>]_vars

\* A turn with a blank prompt has been refused for a session id the client
\* does not know.
C15_Witness ==
    \E t \in Tasks :
       /\ Returned(t, "turn")
       /\ task[t].prompt = "blank"
       /\ task[t].res = "generic_err"
       /\ task[t].sid # None
       /\ task[t].sid \notin client_sessions

\* What an operation that has ended may show: nothing, a value, the two
\* refusals of the adapter, or one of the three client errors.
Outcomes == ClientErrors \cup {None, "ok", "not_initialized", "no_client"}

\* C16: every exception that leaves an operation of the client is one of the
\* three client errors, whichever SDK call failed; seen from the tasks, no
\* operation ends with an exception that is not one of them.
C16_OnlyClientErrorsEscape ==
    \A t \in Tasks : task[t].pc = "idle" => task[t].res \in Outcomes

\* C17: _ensure_client ends with the communication error when the CLI is not
\* found or start() fails, and with the authentication error when the status
\* query fails or reports the client unauthenticated.
C17_EnsureClientErrors ==
    [][\A t \in Tasks :
         /\ (task[t].pc \in {"client_lock", "starting"} /\ task'[t].pc = "idle")
              => task'[t].res = "comm_err"
         /\ (task[t].pc = "stopping" /\ task'[t].pc = "idle")
              => task'[t].res = "auth_err"]_vars

\* Task t ends a call of async_send_prompt with a prompt that is not blank
\* in this step.
SendEnds(t) ==
    /\ task[t].pc \in {"send", "sending"}
    /\ task[t].prompt # "blank"
    /\ task'[t].pc = "idle"

\* C18: async_send_prompt returns content only when send_and_wait yields an
\* event with content that is not empty; a timeout or a connection error
\* gives the communication error; an unknown session id, any other
\* exception, a missing event or empty content gives the generic error; it
\* never gives the authentication error and never changes the client's
\* session map.
C18_SendPromptOutcomes ==
    [][\A t \in Tasks :
         SendEnds(t)
           => /\ task'[t].res = "ok" <=> task'[t].out = "content"
              /\ task'[t].res = "comm_err"
                   <=> task'[t].out \in {"TimeoutError", "ConnectionError"}
              /\ task'[t].res = "generic_err"
                   <=> task'[t].out \in {"unknown_session", "Exception", "no_event",
                                         "empty_content"}
              /\ task'[t].res \in {"ok", "comm_err", "generic_err"}
              /\ task'[t].out = "unknown_session" <=> task[t].pc = "send"
              /\ client_sessions' = client_sessions]_vars

\* A send on a session the client holds has timed out and ended with the
\* communication error, the session still being in the client's map.
C18_Witness ==
    \E t \in Tasks :
       /\ Returned(t, "turn")
       /\ task[t].out = "TimeoutError"
       /\ task[t].res = "comm_err"
       /\ task[t].sid \in client_sessions

\* Client k has been started and has reported isAuthenticated.
Checked(k) == k \in 1..Len(cli) /\ cli[k] # "new" /\ k \in authed

\* C19: the client held in _client is one whose start() succeeded and that
\* reported isAuthenticated; create_session and list_models are only called
\* on such a client; and when _ensure_client has failed, _client is empty.
C19_HeldClientIsChecked ==
    /\ ClientHeld(client) => Checked(client)
    /\ \A t \in Tasks :
         /\ task[t].pc \in {"creating", "listing"} => Checked(task[t].cl)
         /\ (task[t].pc = "idle" /\ task[t].out = "ensure_client") => ~ClientHeld(client)

\* One startup has failed on a client that started but was not
\* authenticated, and a later one has put a checked client in _client.
C19_Witness ==
    /\ ClientHeld(client)
    /\ \E k \in 1..Len(cli) : cli[k] = "stopped" /\ k \notin authed
    /\ \E t \in Tasks : task[t].pc \in {"creating", "listing"} /\ task[t].cl = client

\* C20: provided the SDK calls come back, every operation under way
\* eventually completes, whatever the interleaving: no task waits for the
\* session lock or the client-start lock for ever.
C20_OperationsComplete ==
    \A t \in Tasks : (task[t].pc # "idle") ~> (task[t].pc = "idle")

\* A task that holds the session lock waits for the client-start lock,
\* which another task holds.
C20_Witness ==
    \E t, u \in Tasks :
       /\ t # u
       /\ session_lock = t
       /\ task[t].pc = "client_lock"
       /\ task[t].w
       /\ client_lock = u

\* Calls of get_copilot_token whose exchange request is in flight.
Fetching == {t \in Tasks : acall[t].pc = "fetching"}

\* C21: calls of get_copilot_token that overlap while the cache is empty or
\* expired send at most one exchange request between them: no two calls
\* have a request in flight at the same time.
C21_OneRefreshInFlight == Cardinality(Fetching) <= 1

\* The paths the candidates resolve to, in the order of their priority:
\* the configured cli_path, COPILOT_CLI_PATH, `copilot` on PATH, then the
\* three well-known locations.
Resolved(e) ==
    <<IF e.option \in {None, " "} THEN None ELSE Which(e, e.option),
      IF e.environ \in {None, " "} THEN None ELSE Which(e, e.environ),
      Which(e, "copilot"),
      IF 1 \in e.common THEN CommonPaths[1] ELSE None,
      IF 2 \in e.common THEN CommonPaths[2] ELSE None,
      IF 3 \in e.common THEN CommonPaths[3] ELSE None>>

\* The candidates of environment e that resolve to an executable.
Resolving(e) == {i \in 1..6 : Resolved(e)[i] # None}

\* C22 as stated: a check reports cli_installed exactly when at least one
\* candidate resolves to an executable, and cli_path is what the
\* highest-priority resolving candidate resolves to.
C22_AnyCandidateDecides ==
    cli_status.checked
      => /\ cli_status.cli_installed <=> Resolving(cli_env) # {}
         /\ cli_status.cli_installed
              => \E i \in Resolving(cli_env) :
                    /\ \A j \in Resolving(cli_env) : i <= j
                    /\ cli_status.cli_path = Resolved(cli_env)[i]

\* The candidates a check looks at: the first of cli_path and
\* COPILOT_CLI_PATH that is given, and nothing else; with neither given,
\* `copilot` on PATH and then the well-known locations.
Examined(e) ==
    IF e.option \notin {None, " "} THEN {1}
    ELSE IF e.environ \notin {None, " "} THEN {2}
    ELSE 3..6

\* C22, amended: a check reports cli_installed exactly when one of the
\* candidates it looks at resolves to an executable, and cli_path is what
\* the highest-priority one of these resolves to.
C22_FirstGivenCandidateDecides ==
    cli_status.checked
      => LET R == Resolving(cli_env) \cap Examined(cli_env)
         IN  /\ cli_status.cli_installed <=> R # {}
             /\ cli_status.cli_installed
                  => \E i \in R : /\ \A j \in R : i <= j
                                   /\ cli_status.cli_path = Resolved(cli_env)[i]

\* A check has reported no CLI for a configured path that does not exist,
\* although `copilot` is on PATH.
C22_Witness ==
    /\ cli_status.checked
    /\ ~cli_status.cli_installed
    /\ cli_env.option = AbsPath
    /\ cli_env.file = "missing"
    /\ "copilot" \in cli_env.onpath

\* Sessions whose destroy() has been invoked: it has come back, or an
\* async_end_session call is awaiting it.
DestroyStarted ==
    destroy_invoked
      \cup {IF task[u].op = "close" THEN task[u].cur ELSE SweepKey(task[u].cur) :
              u \in {v \in Tasks : task[v].pc = "end_destroy"}}

\* C23: send_and_wait is never invoked on a session whose destroy() has been
\* invoked, whatever the interleaving of async_send_prompt with
\* async_end_session and async_close.
C23_NoSendAfterDestroy ==
    [][\A t \in Tasks :
         (task[t].pc = "send" /\ task'[t].pc = "sending")
           => task[t].sid \notin DestroyStarted]_vars

\* A turn whose session had been destroyed in the meantime has been refused
\* by the lookup and has sent nothing.
C23_Witness ==
    \E t \in Tasks :
       /\ Returned(t, "turn")
       /\ task[t].out = "unknown_session"
       /\ task[t].sid \in destroy_invoked

\* C24: when async_close has completed, the client's session map is empty
\* and no client is held, also when an async_create_session runs
\* concurrently with it.
C24_CloseLeavesNothing ==
    \A t \in Tasks :
       (Returned(t, "close") /\ task[t].res = "ok")
         => client_sessions = {} /\ ~ClientHeld(client)

\* C25: when a turn's send has failed and the adapter has dropped the
\* conversation's session, the session is no longer in the client's
\* session map either.
C25_DroppedSessionEnded ==
    \A t \in Tasks :
       (Returned(t, "turn") /\ task[t].out \in SendOutcomes \ {"content"})
         => /\ task[t].conv \notin DOMAIN sessions
            /\ task[t].sid \notin client_sessions

\* The id task t hands to async_end_session for entry k of its list.
EndKey(t, k) == IF task[t].op = "close" THEN k ELSE SweepKey(k)

\* The async_end_session call of task t ends in this step.
EndCallEnds(t) ==
    /\ task[t].pc \in {"end_lock", "end_destroy"}
    /\ task'[t] # task[t]
    /\ task'[t].pc # "end_destroy"

C27_SameKeys == DOMAIN sessions = DOMAIN session_last_used

\* After a failed turn has dropped its conversation, another conversation
\* has a session and a timestamp.
C27_Witness ==
    /\ dropped # {}
    /\ DOMAIN sessions # {}
    /\ DOMAIN sessions = DOMAIN session_last_used

\* Sessions in the client's map that async_test_connection created.
ProbeSessions == {s \in client_sessions : created_for[s] = None}

\* No async_test_connection is under way.
NoTestRunning == \A t \in Tasks : task[t].op = "test" => task[t].pc = "idle"

\* C28: async_test_connection leaves no trace: when no such call is under
\* way, whether the calls made failed to create their session or probed it
\* with or without success, the client's map holds no session of theirs; and
\* the session of a call that has finished has had its destroy() invoked.
C28_TestLeavesNoTrace ==
    /\ NoTestRunning => ProbeSessions = {}
    /\ \A t \in Tasks :
         (Returned(t, "test") /\ task[t].sid # None)
           => task[t].sid \notin client_sessions /\ task[t].sid \in DestroyStarted

\* async_test_connection has finished with the communication error of a
\* probe that timed out, and the session it created has been destroyed.
C28_Witness ==
    \E t \in Tasks :
       /\ Returned(t, "test")
       /\ task[t].out = "TimeoutError"
       /\ task[t].res = "comm_err"
       /\ task[t].sid \in destroyed
       /\ client_sessions = {}

\* C29: poll_for_token always terminates: a call under way eventually ends,
\* and a call whose last answer was authorization_pending, slow_down or a
\* network error, none of which ends it, ends with the timeout error.
C29_PollTerminates ==
    (poll.pc # "idle")
      ~> (poll.pc = "idle" /\ (poll.last \in Continues => poll.res = "timeout"))

\* A call has gone on after a network error and a slow_down answer and has
\* ended with the timeout error at its fourth request or later.
C29_Witness ==
    /\ poll.pc = "idle"
    /\ poll.res = "timeout"
    /\ poll.hist = <<"ClientError", "slow_down", "authorization_pending">>
    /\ poll.last \in Continues
    /\ poll.sent > MaxHist

\* C30: poll_for_token sends a token request only while fewer than
\* expires_in seconds have passed since the call began.
C30_RequestsOnlyBeforeExpiry ==
    [][(poll.pc = "sleeping" /\ poll'.pc = "posting")
         => now' - poll.start < poll.expires_in]_vars

\* The calls of get_copilot_token that end with GitHubAuthError in this step.
Failing == {t \in Tasks : acall'[t].res \in {"no_token", "auth_error"}}

\* C31: a get_copilot_token call that fails, with no credential or with an
\* answer 401, 403, another status that is not 200, or a network error,
\* raises GitHubAuthError and leaves the cached Copilot token and the stored
\* GitHub token as they were; with no credential no request is sent.
C31_FailedCallChangesNothing ==
    [][/\ \A t \in Tasks :
            /\ (acall[t].pc = "idle" /\ acall'[t].cred = None /\ acall'[t].pc = "idle"
                   /\ acall'[t] # IdleCall)
                 => t \in Failing /\ acall'[t].sent = 0 /\ nreq' = nreq
            /\ (acall[t].pc = "fetching" /\ acall'[t].pc = "idle"
                   /\ acall'[t].status # "200")
                 => t \in Failing
       /\ Failing # {} => copilot_token' = copilot_token /\ github_token' = github_token
      ]_vars

\* A call has failed on a 403 while an expired token is cached and a GitHub
\* token is stored.
C31_Witness ==
    \E t \in Tasks :
        /\ acall[t].res = "auth_error"
        /\ acall[t].status = "403"
        /\ copilot_token # {}
        /\ github_token # None

\* The errors a submit of the authorize step ends in.
AuthorizeErrors == {"authorization_pending", "authorization_denied",
                    "no_copilot_subscription", "auth_failed"}

\* C32: the wizard creates an entry only with a GitHub token that
\* poll_for_token returned and that get_copilot_token succeeded with, a
\* submit of the authorize step that ends in an error shows the authorize
\* form again and creates no entry, and the authorize and configure steps
\* called with no device code or no token held do what the user step does.
C32_EntryOnlyAfterBothTokens ==
    [][/\ (flow'.created # {} /\ ~flow'.direct)
           => \A e \in flow'.created :
                 /\ flow'.polled # None
                 /\ e.data[CONF_GITHUB_TOKEN] = flow'.polled
                 /\ flow'.polled \in flow'.validated
       /\ (flow'.called = "authorize" /\ flow'.input /\ flow.device /\ flow.auth
             /\ flow'.errors \in AuthorizeErrors)
           => flow'.step = "authorize" /\ flow'.created = {}
       /\ \/ flow'.called = "authorize" /\ (~flow.device \/ ~flow.auth)
          \/ flow'.called = "configure" /\ flow.github_token = None
          => /\ flow'.step \in {"user", "abort"}
             /\ flow'.created = {}
             /\ flow'.github_token = flow.github_token
      ]_vars

\* A flow driven through its forms has created an entry, with a temperature
\* other than the default.
C32_Witness ==
    /\ ~flow.direct
    /\ flow.step = "create_entry"
    /\ \E e \in flow.created : e.options[CONF_TEMPERATURE] = 0
    /\ flow.polled \in flow.validated

\* The value async_setup_entry should take for key k of entry e: the one in
\* options if the key is there, else the one in data, else the default.
Preferred(e, k) ==
    IF k \in DOMAIN e.options THEN e.options[k]
    ELSE IF k \in DOMAIN e.data THEN e.data[k]
    ELSE Default(k)

\* C33: async_setup_entry takes model, max_tokens and temperature from
\* entry.options whenever the key is there, from entry.data only when it is
\* not, and the default only when it is in neither, for every permitted value.
C33_OptionsBeforeDataBeforeDefault ==
    (settings.op = "setup" /\ settings.ret # "false")
      => \A k \in SettingKeys : settings[k] = Preferred(settings.before, k)

\* C34: async_migrate_entry makes of a version-1 entry a version-2 entry with
\* the old api_token value under github_token and with exactly the setting
\* keys of the old data, same values, as options; it leaves any other entry
\* alone; a second migration changes nothing; it returns True.
C34_MigrationMovesSettings ==
    settings.op = "migrate"
      => LET b == settings.before
         IN  /\ settings.ret = "true"
             /\ b.version = 1
                  => /\ entry.version = 2
                     /\ CONF_API_TOKEN \in DOMAIN b.data
                          => /\ CONF_GITHUB_TOKEN \in DOMAIN entry.data
                             /\ entry.data[CONF_GITHUB_TOKEN] = b.data[CONF_API_TOKEN]
                     /\ DOMAIN entry.options = SettingKeys \cap DOMAIN b.data
                     /\ \A k \in DOMAIN entry.options : entry.options[k] = b.data[k]
             /\ b.version # 1 => entry = b
             /\ Migrated(entry) = entry

\* A version-1 entry with a token and two settings in its data has been
\* migrated.
C34_Witness ==
    /\ settings.op = "migrate"
    /\ settings.before.version = 1
    /\ DOMAIN settings.before.data = {CONF_API_TOKEN, CONF_MODEL, CONF_TEMPERATURE}
    /\ settings.before.data[CONF_TEMPERATURE] = 0
    /\ entry.version = 2

\* The entries whose last call was an unload that has returned.
Unloaded == {e \in EntryIds : unit[e].op = "unload" /\ unit[e].pc = "idle"}

\* C35: copilot_assistant's async_unload_entry never raises: it returns
\* True or False, False when the bucket is missing or client.stop() failed,
\* True only with the entry's client stopped or no client stored, and if
\* the bucket exists the entry id is not in it afterwards, also when
\* stopping failed.
C35_UnloadNeverRaises ==
    \A e \in Unloaded :
        /\ unit[e].ret \in {"true", "false"}
        /\ hass_data.exists => e \notin hass_data.ids
        /\ unit[e].cstate = "stop_failed" => unit[e].ret = "false"
        /\ unit[e].ret = "true" => unit[e].cstate # "started"

\* An unload has returned False because client.stop() raised, while the
\* other entry is still loaded.
C35_Witness ==
    \E e \in Unloaded :
        /\ unit[e].cstate = "stop_failed"
        /\ unit[e].ret = "false"
        /\ hass_data.ids = EntryIds \ {e}
====
